---- MODULE Spec2Model ----
(***************************************************************************)
(* The hub control panel: the hand-rolled React-like runtime (hook slots,  *)
(* render, effect flush), the persistence hook useLocalStorage, and the    *)
(* App component with its request flows (sendRequest, handleLogin,         *)
(* handleLogout, handleCustom).                                            *)
(*                                                                         *)
(* JavaScript values.  A hook slot, a dependency entry and a setter        *)
(* argument are "optional" values: <<>> is the JS value undefined and      *)
(* <<v>> is the defined value v.  JSON values are tagged records           *)
(* [t |-> "string", v |-> ..], [t |-> "number", ..], [t |-> "null"] ...    *)
(***************************************************************************)
EXTENDS Integers, Sequences, FiniteSets, TLC

VARIABLES
    hooks,          \* React.hooks: slot index -> optional slot value
    hookIndex,      \* React.hookIndex
    pendingEffects, \* React.pendingEffects: the closures queued by the last render
    currentVNode,   \* React.currentVNode: the component the root renders
    localStorage,   \* window.localStorage: key -> optional raw string
    dom,            \* what the last render put in the container: handlers' closures, disabled flags
    flows,          \* the async request flows that are suspended at an await, oldest first
    last,           \* history: the last handler that ran and what it observed
    obs,            \* history: what each memo/effect hook call of the last render did
    lastSet,        \* history: per state slot, the value its setter was last given
    cleanupLog      \* history: the cleanup calls and effect body runs of the last handler run

vars == <<hooks, hookIndex, pendingEffects, currentVNode, localStorage, dom,
          flows, last, obs, lastSet, cleanupLog>>

-----------------------------------------------------------------------------
(* Bounds of the model *)

\* how many request flows may be suspended at once before the model stops
\* accepting clicks (the code has no such limit)
MaxFlows == 2

-----------------------------------------------------------------------------
(* JavaScript values *)

Undefined == <<>>
Some(v) == <<v>>

\* F applied to the value of v, v being evaluated once (call by value)
With(v, F(_)) == CHOOSE r \in {F(w) : w \in {v}} : TRUE

Str(s) == [t |-> "string", v |-> s]
Num(n) == [t |-> "number", n |-> n]
Bool(b) == [t |-> "boolean", b |-> b]
Null == [t |-> "null"]
\* the objects the model needs: a login reply and a one-field payload
Reply(tok, user) == [t |-> "object", access_token |-> tok, username |-> user]
Payload == [t |-> "object", a |-> 1]
\* the login request's body { username, password }
Credentials(user, pass) == [t |-> "object", username |-> user, password |-> pass]

\* JS truthiness of a JSON value
Truthy(v) ==
    CASE v.t = "string" -> v.v # ""
      [] v.t = "number" -> v.n # 0
      [] v.t = "boolean" -> v.b
      [] v.t = "null" -> FALSE
      [] OTHER -> TRUE

-----------------------------------------------------------------------------
(* Strings *)

IsSpace(c) == c = " "

RECURSIVE TrimLeft(_)
TrimLeft(s) ==
    IF Len(s) > 0 /\ IsSpace(SubSeq(s, 1, 1)) THEN TrimLeft(SubSeq(s, 2, Len(s))) ELSE s

RECURSIVE TrimRight(_)
TrimRight(s) ==
    IF Len(s) > 0 /\ IsSpace(SubSeq(s, Len(s), Len(s)))
    THEN TrimRight(SubSeq(s, 1, Len(s) - 1)) ELSE s

\* String.prototype.trim
Trim(s) == TrimRight(TrimLeft(s))

\* String.prototype.startsWith
StartsWith(s, p) == Len(s) >= Len(p) /\ SubSeq(s, 1, Len(p)) = p

EndsWith(s, p) == Len(s) >= Len(p) /\ SubSeq(s, Len(s) - Len(p) + 1, Len(s)) = p

\* String.prototype.includes
Contains(s, p) == \E i \in 1..(Len(s) - Len(p) + 1) : SubSeq(s, i, i + Len(p) - 1) = p

\* s without every space (JSON's insignificant whitespace; no text of the
\* model has a space inside a string literal)
RECURSIVE StripSpaces(_)
StripSpaces(s) ==
    IF Len(s) = 0 THEN s
    ELSE IF IsSpace(SubSeq(s, 1, 1)) THEN StripSpaces(SubSeq(s, 2, Len(s)))
    ELSE SubSeq(s, 1, 1) \o StripSpaces(SubSeq(s, 2, Len(s)))

-----------------------------------------------------------------------------
(* JSON *)

Quote(s) == "\"" \o s \o "\""

IsQuoted(c) ==
    /\ Len(c) >= 2
    /\ SubSeq(c, 1, 1) = "\""
    /\ SubSeq(c, Len(c), Len(c)) = "\""
    /\ ~Contains(SubSeq(c, 2, Len(c) - 1), "\"")

\* the access tokens and user names a hub may return
Tokens == {"abc"}
Users == {"u"}

\* JSON.stringify of the non-string values of the model (compact form)
Literal(v) ==
    CASE v.t = "number" -> IF v.n = 0 THEN "0" ELSE "1"
      [] v.t = "boolean" -> IF v.b THEN "true" ELSE "false"
      [] v.t = "null" -> "null"
      [] v.t = "object" /\ "a" \in DOMAIN v -> "{\"a\":1}"
      [] v.t = "object" /\ "password" \in DOMAIN v ->
            "{\"username\":" \o Quote(v.username) \o ",\"password\":" \o Quote(v.password) \o "}"
      [] v.t = "object" /\ "access_token" \in DOMAIN v ->
            "{" \o (IF v.access_token = Undefined THEN ""
                    ELSE "\"access_token\":" \o Quote(v.access_token[1]))
                \o (IF v.access_token # Undefined /\ v.username # Undefined THEN "," ELSE "")
                \o (IF v.username = Undefined THEN ""
                    ELSE "\"username\":" \o Quote(v.username[1]))
                \o "}"

\* the non-string JSON values of the model
JSONValues ==
    {Num(0), Bool(FALSE), Null, Payload}
    \cup {Reply(tok, user) : tok \in {Undefined} \cup {Some(x) : x \in Tokens \cup {""}},
                             user \in {Undefined} \cup {Some(x) : x \in Users}}

\* JSON.stringify
JSONStringify(v) == IF v.t = "string" THEN Quote(v.v) ELSE Literal(v)

\* JSON.parse: <<value>>, or <<>> when it throws a SyntaxError
JSONParse(text) ==
    LET c == StripSpaces(text) IN
    IF IsQuoted(c) THEN Some(Str(SubSeq(c, 2, Len(c) - 1)))
    ELSE IF \E v \in JSONValues : Literal(v) = c
         THEN Some(CHOOSE v \in JSONValues : Literal(v) = c)
    ELSE Undefined

-----------------------------------------------------------------------------
(* The runtime.  Its operators take and return the machine m: a record of  *)
(* the module-level state of the runtime and of the browser that a render  *)
(* reads and writes: hooks, hookIndex, pendingEffects, currentVNode,       *)
(* localStorage, dom, and the histories obs, lastSet and cleanupLog.       *)

\* the hook slots a component of the model uses (App makes 13 hook calls)
NumSlots == 13
Slots == 0..(NumSlots - 1)

\* hooks = []
NoHooks == [i \in Slots |-> Undefined]

\* no hook call observed yet
NoObs == [i \in Slots |-> [seen |-> FALSE]]

\* useState, lines 33-36 and 41: the slot is (re)initialised while it holds undefined
useState(machine, initialValue) ==
    With(machine, LAMBDA m :
        [m EXCEPT !.hookIndex = m.hookIndex + 1,
                  !.hooks[m.hookIndex] = IF @ = Undefined THEN initialValue ELSE @])

\* previous.deps[i] of a stored dependency list
DepAt(prevDeps, i) == IF i <= Len(prevDeps[1]) THEN prevDeps[1][i] ELSE Undefined

\* the test both useMemo and useEffect make:
\* !deps || deps.length === 0 || deps.some((dep, i) => dep !== previous.deps[i])
DepsChanged(deps, prevDeps) ==
    \/ deps = Undefined
    \/ Len(deps[1]) = 0
    \/ \E i \in 1..Len(deps[1]) : deps[1][i] # DepAt(prevDeps, i)

\* the histories obs and lastSet are kept for the hook client only
Tracked(m) == m.currentVNode.type = "HookClient"

\* the history of one memo/effect hook call: the dependency list it was
\* given, the one the same call was given in the render before, and whether
\* the factory was called / the effect body scheduled
Observe(m, idx, deps, fired) ==
    IF Tracked(m)
    THEN [seen |-> TRUE, deps |-> deps, fired |-> fired,
          first |-> ~m.obs[idx].seen,
          prior |-> IF m.obs[idx].seen THEN m.obs[idx].deps ELSE Undefined]
    ELSE m.obs[idx]

\* useMemo; value is what factory() returns in this render
useMemo(machine, value, deps) ==
    With(machine, LAMBDA m :
        LET idx == m.hookIndex
            previous == m.hooks[idx]
            changed == previous = Undefined \/ DepsChanged(deps, previous[1].deps)
        IN  [m EXCEPT !.hookIndex = idx + 1,
                      !.hooks[idx] = IF changed THEN Some([value |-> value, deps |-> deps])
                                     ELSE @,
                      !.obs[idx] = Observe(m, idx, deps, changed)])

\* useEffect; effect describes the closure passed in this render
useEffect(machine, effect, deps) ==
    With(machine, LAMBDA m :
        LET idx == m.hookIndex
            previous == m.hooks[idx]
            changed == previous = Undefined \/ DepsChanged(deps, previous[1].deps)
        IN  [m EXCEPT !.hookIndex = idx + 1,
                      !.pendingEffects =
                          IF changed
                          THEN Append(@, [idx |-> idx, previous |-> previous,
                                          deps |-> deps, effect |-> effect])
                          ELSE @,
                      !.obs[idx] = Observe(m, idx, deps, changed)])

\* window.localStorage.getItem / setItem / removeItem
getItem(m, key) == m.localStorage[key]
setItem(m, key, raw) == [m EXCEPT !.localStorage[key] = Some(raw)]
removeItem(m, key) == [m EXCEPT !.localStorage[key] = Undefined]

\* the initialiser useLocalStorage passes to useState
StoredInitial(m, key, initialValue) ==
    LET raw == getItem(m, key)
        parsed == IF raw = Undefined THEN Undefined ELSE JSONParse(raw[1])
    IN  IF parsed # Undefined THEN Some(parsed[1].v) ELSE initialValue

\* useLocalStorage's useEffect call (lines 149-155): stored is the value the
\* state slot idx returned in this render
PersistEffect(machine, key, idx) ==
    With(machine, LAMBDA m :
        useEffect(m, [kind |-> "persist", key |-> key, stored |-> m.hooks[idx]],
                  Some(<<Some(key), m.hooks[idx]>>)))

\* useLocalStorage: a state slot, then an effect slot with deps [key, stored]
useLocalStorage(machine, key, initialValue) ==
    With(machine, LAMBDA m :
        PersistEffect(useState(m, StoredInitial(m, key, initialValue)), key, m.hookIndex))

\* the body of useLocalStorage's effect
Persist(m, effect) ==
    IF effect.stored = Undefined
    THEN removeItem(m, effect.key)
    ELSE setItem(m, effect.key, JSONStringify(Str(effect.stored[1])))

-----------------------------------------------------------------------------
(* The components *)

\* window.location.origin
Origin == "http://page"

\* App's hook calls, in call order (lines 204-215)
BaseUrlSlot == 0
TokenSlot == 2
UsernameSlot == 4
PasswordSlot == 5
IsLoadingSlot == 6
ResponseSlot == 7
ToastSlot == 8
CustomPathSlot == 9
CustomMethodSlot == 10
CustomBodySlot == 11
ResolvedSlot == 12

Toast(tone, message) == [tone |-> tone, message |-> message]

AppTreeBroken(machine) ==
    With(machine, LAMBDA m : [m EXCEPT !.dom =
        [token |-> m.hooks[TokenSlot][1],
         resolvedBaseUrl |-> m.hooks[ResolvedSlot][1].value,
         username |-> m.hooks[UsernameSlot][1],
         password |-> m.hooks[PasswordSlot][1],
         customPath |-> m.hooks[CustomPathSlot][1],
         customMethod |-> m.hooks[CustomMethodSlot][1],
         customBody |-> m.hooks[CustomBodySlot][1],
         loginDisabled |-> m.hooks[IsLoadingSlot][1],
         logoutDisabled |-> (m.hooks[TokenSlot][1] = "" \/ m.hooks[IsLoadingSlot][1]),
         quickDisabled |-> FALSE,
         customDisabled |-> m.hooks[IsLoadingSlot][1]]])

\* what App returns (lines 283-468): of the tree the model keeps the values
\* the handlers close over and the disabled attributes of the buttons
AppTree(machine) ==
    With(machine, LAMBDA m : [m EXCEPT !.dom =
        [token |-> m.hooks[TokenSlot][1],
         resolvedBaseUrl |-> m.hooks[ResolvedSlot][1].value,
         username |-> m.hooks[UsernameSlot][1],
         password |-> m.hooks[PasswordSlot][1],
         customPath |-> m.hooks[CustomPathSlot][1],
         customMethod |-> m.hooks[CustomMethodSlot][1],
         customBody |-> m.hooks[CustomBodySlot][1],
         loginDisabled |-> m.hooks[IsLoadingSlot][1],
         logoutDisabled |-> (m.hooks[TokenSlot][1] = "" \/ m.hooks[IsLoadingSlot][1]),
         quickDisabled |-> m.hooks[IsLoadingSlot][1],
         customDisabled |-> m.hooks[IsLoadingSlot][1]]])

\* resolvedBaseUrl = useMemo(() => baseUrl || origin, [baseUrl, origin])
ResolvedMemo(machine) ==
    With(machine, LAMBDA m :
        useMemo(m, IF m.hooks[BaseUrlSlot][1] # "" THEN m.hooks[BaseUrlSlot][1] ELSE Origin,
                Some(<<m.hooks[BaseUrlSlot], Some(Origin)>>)))

\* the App component: its hook calls in call order (lines 204-215), then its tree
App(m) ==
    AppTree(ResolvedMemo(
        useState(                                   \* customBody
        useState(                                   \* customMethod
        useState(                                   \* customPath
        useState(                                   \* toast
        useState(                                   \* response
        useState(                                   \* isLoading
        useState(                                   \* password
        useState(                                   \* username
        useLocalStorage(                            \* token
        useLocalStorage(m, "hub.baseUrl", Some(Origin)),
                        "hub.token", Some("")),
        Some("")), Some("")), Some(FALSE)), Some(Null)), Some(Toast("success", ""))),
        Some("/admin/providers")), Some("GET")), Some(""))))

\* HookClient's hook calls, in call order
StoredSlot == 0
StoredEffectSlot == 1
MirrorSlot == 2
MemoSlot == 3
SyncSlot == 4

\* the dependency list a hook call of HookClient passes: none, [] or [stored]
DepsOf(shape, stored) ==
    CASE shape = "missing" -> Undefined
      [] shape = "empty" -> Some(<<>>)
      [] shape = "list" -> Some(<<stored>>)

\* HookClient's memo and effect calls, and what it renders
ClientMemo(machine, shape) ==
    With(machine, LAMBDA m :
        useMemo(m, m.hooks[StoredSlot], DepsOf(shape, m.hooks[StoredSlot])))

ClientEffect(machine, shape, syncs) ==
    With(machine, LAMBDA m :
        useEffect(m, [kind |-> "sync", stored |-> m.hooks[StoredSlot],
                      mirror |-> m.hooks[MirrorSlot], syncs |-> syncs],
                  DepsOf(shape, m.hooks[StoredSlot])))

ClientTree(machine) ==
    With(machine, LAMBDA m :
        [m EXCEPT !.dom = [stored |-> m.hooks[StoredSlot], mirror |-> m.hooks[MirrorSlot],
                           memo |-> m.hooks[MemoSlot][1].value]])

\* a client of every hook of the runtime: a persisted state "stored", a
\* second state "mirror", a memo of stored and an effect that copies stored
\* into mirror and returns a cleanup.  props fix the code of its hook calls:
\*   const [stored, setStored] = useLocalStorage("k", props.initial);
\*   const [mirror, setMirror] = useState("x");
\*   const memo = useMemo(() => stored, <props.memoDeps>);
\*   useEffect(() => { if (props.syncs && stored !== undefined && mirror !== stored)
\*                       setMirror(stored);
\*                     return () => {}; }, <props.effectDeps>);
HookClient(machine) ==
    With(machine, LAMBDA m :
        ClientTree(ClientEffect(ClientMemo(
            useState(useLocalStorage(m, "k", m.currentVNode.props.initial), Some("x")),
            m.currentVNode.props.memoDeps),
            m.currentVNode.props.effectDeps, m.currentVNode.props.syncs)))

\* createDom on a component node: const component = vnode.type({...})
Component(machine) ==
    With(machine, LAMBDA m : IF m.currentVNode.type = "App" THEN App(m) ELSE HookClient(m))

\* the updater functions a caller passes to a setter
Apply(f, old) ==
    CASE f = "swap" -> IF old = Some("a") THEN Some("b") ELSE Some("a")

\* a setter's argument: a value, or an updater function
Lit(v) == [fn |-> FALSE, v |-> v]
Fn(f) == [fn |-> TRUE, f |-> f]

RECURSIVE render(_)
RECURSIVE Flush(_, _, _)

\* the setter useState returns for slot idx (lines 37-40), rerender included
setState(machine, idx, value) ==
    With(machine, LAMBDA m :
        LET new == IF value.fn THEN Apply(value.f, m.hooks[idx]) ELSE value.v IN
        render([m EXCEPT !.hooks[idx] = new,
                         !.lastSet[idx] = IF Tracked(m) THEN [set |-> TRUE, v |-> new]
                                          ELSE @]))

\* the number of effect body runs cleanupLog holds
Runs(log) == Len(SelectSeq(log, LAMBDA e : e.ev = "start"))

\* the body of HookClient's effect starts: the run gets the next number,
\* which also names the cleanup function it will return
SyncStarted(machine) ==
    With(machine, LAMBDA m :
        [m EXCEPT !.cleanupLog = Append(@, [ev |-> "start", id |-> Runs(@) + 1])])

\* ... it copies stored into mirror (a setter call from inside the effect) ...
SyncBody(machine, effect) ==
    With(machine, LAMBDA m :
        [m |-> IF effect.syncs /\ effect.stored # Undefined /\ effect.mirror # effect.stored
               THEN setState(m, MirrorSlot, Lit(effect.stored))
               ELSE m,
         id |-> Runs(m.cleanupLog)])

\* ... and returns a new cleanup function
SyncReturned(done, effect) ==
    With(done, LAMBDA r :
        [m |-> [r.m EXCEPT !.cleanupLog = Append(@, [ev |-> "return", id |-> r.id])],
         cleanup |-> Some([closes |-> effect.stored, id |-> r.id])])

\* the body of HookClient's effect: [m |-> machine after it, cleanup |-> what it returns]
Sync(m, effect) == SyncReturned(SyncBody(SyncStarted(m), effect), effect)

\* if (previous && typeof previous.cleanup === 'function') previous.cleanup()
\* (lines 73-75), previous being what the closure captured in its render
Cleanup(machine, previous) ==
    With(machine, LAMBDA m :
        IF previous # Undefined /\ previous[1].cleanup # Undefined
        THEN [m EXCEPT !.cleanupLog =
                        Append(@, [ev |-> "cleanup", id |-> previous[1].cleanup[1].id])]
        ELSE m)

\* effect(): the body of the closure passed to useEffect
Body(m, effect) ==
    IF effect.kind = "persist"
    THEN [m |-> Persist(m, effect), cleanup |-> Undefined]
    ELSE Sync(m, effect)

\* hooks[idx] = { deps, cleanup } (line 77), r being what effect() did
StoreEffect(done, c) ==
    With(done, LAMBDA r :
        [r.m EXCEPT !.hooks[c.idx] = Some([deps |-> c.deps, cleanup |-> r.cleanup])])

\* one closure of pendingEffects (lines 72-78); a cleanup of the model does
\* nothing but be called
RunEffect(m, c) == StoreEffect(Body(Cleanup(m, c.previous), c.effect), c)

\* pendingEffects.forEach((fn) => fn()) over the list the render built
Flush(m, list, i) ==
    IF i > Len(list) THEN m ELSE Flush(RunEffect(m, list[i]), list, i + 1)

\* render (lines 16-24), which rerender calls with the same node and root
FlushAll(machine) == With(machine, LAMBDA m : Flush(m, m.pendingEffects, 1))

render(m) == FlushAll(Component([m EXCEPT !.hookIndex = 0, !.pendingEffects = <<>>]))

-----------------------------------------------------------------------------
(* The App's request flows *)

\* QUICK_ACTIONS (two of the five; all are GET requests of a path starting with "/")
QuickActions == {[path |-> "/admin/providers", method |-> "GET"],
                 [path |-> "/health", method |-> "GET"]}

\* buildUrl
buildUrl(baseUrl, path) ==
    LET base == IF EndsWith(baseUrl, "/") THEN SubSeq(baseUrl, 1, Len(baseUrl) - 1)
                ELSE baseUrl
    IN  IF ~StartsWith(path, "/") THEN base \o "/" \o path ELSE base \o path

\* Response.ok: the status is in the range 200-299
ResOk(status) == StartsWith(status, "2")

\* sendRequest's "if (body && method !== 'GET')"
BodyAttached(body, method) == body # Undefined /\ Truthy(body[1]) /\ method # "GET"

AuthorizationBroken(token) == Some("Bearer " \o token)

\* if (token) headers.Authorization = `Bearer ${token}` (line 223), token
\* being the one the closure holds
Authorization(token) == IF token # "" THEN Some("Bearer " \o token) ELSE Undefined

\* sendRequest up to "await fetch(url, config)" (lines 217-231), run by a
\* handler that closes over the values c of the render that made it:
\* [m |-> the machine after it, request |-> the fetch call's arguments]
Dispatch(m, c, path, method, body) ==
    LET m1 == setState(m, IsLoadingSlot, Lit(Some(TRUE)))
        m2 == setState(m1, ToastSlot, Lit(Some(Toast("success", ""))))
    IN  [m |-> m2,
         request |->
            [url |-> buildUrl(c.resolvedBaseUrl, path),
             method |-> method,
             path |-> path,
             contentType |-> "application/json",
             authorization |-> Authorization(c.token),
             body |-> IF BodyAttached(body, method) THEN Some(JSONStringify(body[1]))
                      ELSE Undefined]]

\* sendRequest's "finally { setIsLoading(false) }"
FinallyBroken(m) == m
Finally(m) == setState(m, IsLoadingSlot, Lit(Some(FALSE)))

\* sendRequest from "await res.text()" resolving to its return (lines 232-244, 249-251)
ToneOfBroken(ok) == "success"
ToneOf(ok) == IF ok THEN "success" ELSE "error"

Respond(m, req, status, text) ==
    LET p == JSONParse(text)
        parsed == IF p = Undefined THEN Str(text) ELSE p[1]
        ok == ResOk(status)
        payload == [t |-> "object", method |-> req.method, path |-> req.path,
                    status |-> status, data |-> parsed]
        m1 == setState(m, ResponseSlot, Lit(Some(payload)))
        m2 == setState(m1, ToastSlot,
                       Lit(Some(Toast(ToneOf(ok),
                                      req.method \o " " \o req.path \o " "
                                        \o (IF ok THEN "succeeded" ELSE "failed")))))
    IN  [m |-> Finally(m2), result |-> [ok |-> ok, data |-> parsed]]

\* sendRequest's catch block to its return (lines 245-251)
CatchBroken(m, req, message) ==
    [m |-> Finally(m), result |-> [ok |-> TRUE, data |-> Str(message)]]
Catch(m, req, message) ==
    LET m1 == setState(m, ToastSlot, Lit(Some(Toast("error", message))))
        m2 == setState(m1, ResponseSlot,
                       Lit(Some([t |-> "object", method |-> req.method, path |-> req.path,
                                 status |-> "error", data |-> Str(message)])))
    IN  [m |-> Finally(m2), result |-> [ok |-> FALSE, data |-> Str(message)]]

\* result.data?.access_token, as an optional string
AccessTokenOf(data) ==
    IF data.t = "object" /\ "access_token" \in DOMAIN data THEN data.access_token
    ELSE Undefined

\* result.data.username
UsernameOf(data) ==
    IF data.t = "object" /\ "username" \in DOMAIN data THEN data.username ELSE Undefined

\* handleLogin after "await sendRequest" (lines 256-259); c is the closure of
\* the render that made the handler
LoginStoresBroken(result) == AccessTokenOf(result.data) # Undefined
LoginStores(result) ==
    /\ result.ok
    /\ AccessTokenOf(result.data) # Undefined
    /\ AccessTokenOf(result.data)[1] # ""

AfterLogin(m, c, result) ==
    IF LoginStores(result)
    THEN LET name == UsernameOf(result.data)
             m1 == setState(m, TokenSlot, Lit(Some(AccessTokenOf(result.data)[1])))
         IN  setState(m1, ToastSlot,
                      Lit(Some(Toast("success",
                                     "Signed in as "
                                       \o (IF name # Undefined /\ name[1] # "" THEN name[1]
                                           ELSE c.username)))))
    ELSE m

\* handleLogout after "await sendRequest" (lines 264-265)
AfterLogoutBroken(m) == IF m.hooks[ResponseSlot][1].status = "error" THEN m
                        ELSE setState(m, TokenSlot, Lit(Some("")))
AfterLogout(m) ==
    LET m1 == setState(m, TokenSlot, Lit(Some("")))
    IN  setState(m1, ToastSlot, Lit(Some(Toast("success", "Logged out and token cleared"))))

\* handleCustom's parse of the body text (lines 269-277):
\* [invalid |-> it returns after the error toast, body |-> parsedBody]
ParseCustomBroken(customBody) ==
    [invalid |-> FALSE, body |-> JSONParse(customBody)]
ParseCustom(customBody) ==
    IF Trim(customBody) # ""
    THEN LET p == JSONParse(customBody) IN [invalid |-> p = Undefined, body |-> p]
    ELSE [invalid |-> FALSE, body |-> Undefined]

-----------------------------------------------------------------------------
(* The machine and the state *)

Machine ==
    [hooks |-> hooks, hookIndex |-> hookIndex, pendingEffects |-> pendingEffects,
     currentVNode |-> currentVNode, localStorage |-> localStorage, dom |-> dom,
     obs |-> obs, lastSet |-> lastSet, cleanupLog |-> cleanupLog]

Commit(machine) ==
    \E m \in {machine} :
    /\ hooks' = m.hooks
    /\ hookIndex' = m.hookIndex
    /\ pendingEffects' = m.pendingEffects
    /\ currentVNode' = m.currentVNode
    /\ localStorage' = m.localStorage
    /\ dom' = m.dom
    /\ obs' = m.obs
    /\ lastSet' = m.lastSet
    /\ cleanupLog' = m.cleanupLog

StorageKeys == {"hub.baseUrl", "hub.token", "k"}

\* the machine before root.render(h(C)): the module-level initialisers
\* (lines 4-8) and the storage the browser starts with
Fresh(vnode, storage) ==
    [hooks |-> NoHooks, hookIndex |-> 0, pendingEffects |-> <<>>,
     currentVNode |-> vnode, localStorage |-> storage, dom |-> [none |-> TRUE],
     obs |-> NoObs, lastSet |-> [i \in Slots |-> [set |-> FALSE]], cleanupLog |-> <<>>]

\* what the user types or selects
BaseUrlInputs == {""}
UsernameInputs == {"bob"}
CustomMethodInputs == {"GET", "POST"}
CustomBodyInputs == {"", " ", "{not json", "{ \"a\": 1 }", "0"}

\* what the hub answers
Statuses == {"200", "401"}
\* POST /authenticate answers with a JSON object; the other paths with text
ResponseTexts(path) ==
    IF path = "/authenticate"
    THEN {Literal(Reply(Some("abc"), Some("u"))), Literal(Reply(Some("abc"), Undefined)), "{}"}
    ELSE {"oops"}
ErrorMessages == {"Failed to fetch"}

\* the storage a page load may find: nothing, what an earlier session of the
\* App wrote, or an entry that is not JSON
InitialStorages ==
    {[k \in StorageKeys |-> CASE k = "hub.baseUrl" -> b [] k = "hub.token" -> t
                                 [] OTHER -> Undefined] :
        b \in {Undefined, Some("{oops")},
        t \in {Undefined, Some(Quote("abc"))}}

NoRequest ==
    [url |-> "", method |-> "", path |-> "", contentType |-> "",
     authorization |-> Undefined, body |-> Undefined]

NoResult == [ok |-> FALSE, data |-> Null]

\* history of the last handler run
Event(op, kind) ==
    [op |-> op, kind |-> kind, outcome |-> "none", status |-> "", message |-> "",
     request |-> NoRequest, result |-> NoResult,
     before |-> [token |-> "", username |-> ""],
     found |-> [isLoading |-> FALSE, response |-> Null, customBody |-> ""]]

\* the state a handler finds when it starts, and what it closes over
Snapshot == [token |-> hooks[TokenSlot][1], username |-> dom.username]
Found == [isLoading |-> hooks[IsLoadingSlot][1], response |-> hooks[ResponseSlot][1],
          customBody |-> dom.customBody]

\* the state in which the first render leaves the machine m
Loaded(machine) ==
    \E m \in {machine} :
    /\ hooks = m.hooks
    /\ hookIndex = m.hookIndex
    /\ pendingEffects = m.pendingEffects
    /\ currentVNode = m.currentVNode
    /\ localStorage = m.localStorage
    /\ dom = m.dom
    /\ obs = m.obs
    /\ lastSet = m.lastSet
    /\ cleanupLog = m.cleanupLog
    /\ flows = <<>>
    /\ last = Event("init", "none")

\* root.render(h(App)) on page load (lines 471-472)
Init ==
    \E storage \in InitialStorages :
        Loaded(render(Fresh([type |-> "App", props |-> [none |-> TRUE]], storage)))

\* a continuation of an async function is ready to run: it runs before the
\* event loop takes any other task
MicrotaskPending == \E i \in 1..Len(flows) : flows[i].pc = "resume"

\* an onInput handler, or a click that only sets one state
Input(slot, v) ==
    /\ ~MicrotaskPending
    /\ Commit(setState(Machine, slot, Lit(Some(v))))
    /\ last' = Event("input", "none")
    /\ UNCHANGED flows

TypeBaseUrl == \E v \in BaseUrlInputs : Input(BaseUrlSlot, v)
ResetBaseUrl == Input(BaseUrlSlot, Origin)
TypeUsername == \E v \in UsernameInputs : Input(UsernameSlot, v)
SelectCustomMethod == \E v \in CustomMethodInputs : Input(CustomMethodSlot, v)
TypeCustomBody == \E v \in CustomBodyInputs : Input(CustomBodySlot, v)
clearResponse == Input(ResponseSlot, Null)

\* a handler calls sendRequest, d being what it does up to "await fetch",
\* and suspends there
Sent(kind, dispatched) ==
    \E d \in {dispatched} :
    /\ ~MicrotaskPending
    /\ Len(flows) < MaxFlows
    /\ Commit(d.m)
    /\ flows' = Append(flows, [kind |-> kind, pc |-> "fetch", req |-> d.request,
                               outcome |-> "none", status |-> "", message |-> "",
                               result |-> NoResult, before |-> Snapshot])
    /\ last' = [Event("dispatch", kind) EXCEPT !.request = d.request, !.before = Snapshot,
                                               !.found = Found]

Send(kind, path, method, body) == Sent(kind, Dispatch(Machine, dom, path, method, body))

\* a quick-action button's onClick: sendRequest(action)
QuickAction ==
    \E a \in QuickActions :
        /\ ~dom.quickDisabled
        /\ Send("quick", a.path, a.method, Undefined)

\* handleLogin up to its await (line 255)
handleLogin ==
    /\ ~dom.loginDisabled
    /\ Send("login", "/authenticate", "POST", Some(Credentials(dom.username, dom.password)))

\* handleLogout up to its await (line 263)
handleLogout ==
    /\ ~dom.logoutDisabled
    /\ Send("logout", "/logout", "POST", Undefined)

\* handleCustom with a body text it accepts, up to its await (line 278)
handleCustom ==
    /\ ~dom.customDisabled
    /\ ~ParseCustom(dom.customBody).invalid
    /\ Send("custom", dom.customPath, dom.customMethod, ParseCustom(dom.customBody).body)

\* handleCustom with a body text it rejects (lines 273-276)
handleCustomInvalid ==
    /\ ~dom.customDisabled
    /\ ~MicrotaskPending
    /\ ParseCustom(dom.customBody).invalid
    /\ Commit(setState(Machine, ToastSlot,
                       Lit(Some(Toast("error", "Request body must be valid JSON")))))
    /\ last' = [Event("rejected", "custom") EXCEPT !.before = Snapshot, !.found = Found]
    /\ UNCHANGED flows

Remove(seq, i) == SubSeq(seq, 1, i - 1) \o SubSeq(seq, i + 1, Len(seq))

\* fetch resolves with a response: the flow suspends at "await res.text()"
FetchResolves ==
    \E i \in 1..Len(flows), status \in Statuses :
        /\ ~MicrotaskPending
        /\ flows[i].pc = "fetch"
        /\ flows' = [flows EXCEPT ![i].pc = "text", ![i].status = status,
                                  ![i].outcome = "http"]
        /\ last' = Event("headers", flows[i].kind)
        /\ UNCHANGED <<hooks, hookIndex, pendingEffects, currentVNode, localStorage,
                       dom, obs, lastSet, cleanupLog>>

\* sendRequest of flow i returns r = [m, result]: its caller's continuation
\* is queued as a microtask
Returned(i, returned, outcome, message) ==
    \E r \in {returned} :
    /\ Commit(r.m)
    /\ flows' = [flows EXCEPT ![i].pc = "resume", ![i].result = r.result,
                              ![i].outcome = outcome, ![i].message = message]
    /\ last' = [Event("returned", flows[i].kind) EXCEPT
                    !.outcome = outcome, !.status = flows[i].status,
                    !.message = message, !.request = flows[i].req,
                    !.result = r.result, !.before = flows[i].before]

\* res.text() resolves: sendRequest runs to its return
TextResolves ==
    \E i \in 1..Len(flows) : \E text \in ResponseTexts(flows[i].req.path) :
        /\ ~MicrotaskPending
        /\ flows[i].pc = "text"
        /\ Returned(i, Respond(Machine, flows[i].req, flows[i].status, text), "http", "")

\* fetch or res.text() rejects: sendRequest's catch runs to its return
Rejects ==
    \E i \in 1..Len(flows), message \in ErrorMessages :
        /\ ~MicrotaskPending
        /\ flows[i].pc \in {"fetch", "text"}
        /\ Returned(i, Catch(Machine, flows[i].req, message), "threw", message)

\* the handler's continuation after "await sendRequest(...)": the flow ends
Resume ==
    \E i \in 1..Len(flows) :
        LET f == flows[i]
            m == CASE f.kind = "login" -> AfterLogin(Machine, f.before, f.result)
                   [] f.kind = "logout" -> AfterLogout(Machine)
                   [] OTHER -> Machine
        IN  /\ f.pc = "resume"
            /\ Commit(m)
            /\ flows' = Remove(flows, i)
            /\ last' = [Event("done", f.kind) EXCEPT
                            !.outcome = f.outcome, !.status = f.status,
                            !.message = f.message, !.request = f.req,
                            !.result = f.result, !.before = f.before]

Next ==
    \/ TypeBaseUrl
    \/ ResetBaseUrl
    \/ TypeUsername
    \/ SelectCustomMethod
    \/ TypeCustomBody
    \/ clearResponse
    \/ QuickAction
    \/ handleLogin
    \/ handleLogout
    \/ handleCustom
    \/ handleCustomInvalid
    \/ FetchResolves
    \/ TextResolves
    \/ Rejects
    \/ Resume

Spec == Init /\ [][Next]_vars

\* the user only clicks, every network call settles and every continuation
\* runs (the event loop runs a ready continuation, and the claim about the
\* loading flag assumes that every network call settles)
Settle == FetchResolves \/ TextResolves \/ Rejects

ClickNext ==
    \/ SelectCustomMethod
    \/ QuickAction
    \/ handleLogin
    \/ handleLogout
    \/ handleCustom
    \/ Settle
    \/ Resume

LiveSpec == Init /\ [][ClickNext]_vars /\ WF_vars(Settle) /\ WF_vars(Resume)

-----------------------------------------------------------------------------
(* The App's state, by name *)

token == hooks[TokenSlot][1]
isLoading == hooks[IsLoadingSlot][1]
response == hooks[ResponseSlot][1]
toast == hooks[ToastSlot][1]

\* the flow that just ended got an HTTP response that is not 2xx
NonOk(e) == e.outcome = "http" /\ ~ResOk(e.status)

RecordHolds(status) == response.t = "object" /\ response.status = status

-----------------------------------------------------------------------------
(* Claims about the App *)

\* C1 as stated: whenever a flow of any kind (quick action, custom call,
\* login, logout) that got a non-2xx response has completed, the response
\* record holds that status, the toast is error-toned and the token is what
\* it was when the request was triggered.
C1_AnyFlowNonOk ==
    (last.op = "done" /\ NonOk(last)) =>
        /\ RecordHolds(last.status)
        /\ toast.tone = "error"
        /\ token = last.before.token

\* C1 amended: when sendRequest returns from a non-2xx response (in any
\* flow) the record holds the status, the toast is error-toned and the token
\* is unchanged, and the quick, custom and login flows complete in that
\* state; the logout flow completes with the record holding the status, the
\* token cleared and its success-toned confirmation as the toast.
C1_NonOkResponse ==
    /\ (last.op = "returned" /\ NonOk(last)) =>
            /\ RecordHolds(last.status)
            /\ toast.tone = "error"
            /\ token = last.before.token
    /\ (last.op = "done" /\ NonOk(last) /\ last.kind # "logout") =>
            /\ RecordHolds(last.status)
            /\ toast.tone = "error"
            /\ token = last.before.token
    /\ (last.op = "done" /\ NonOk(last) /\ last.kind = "logout") =>
            /\ RecordHolds(last.status)
            /\ toast = Toast("success", "Logged out and token cleared")
            /\ token = ""

\* a login answered 401 with a token in the body has completed, the App
\* holding a token from before
C1_Witness ==
    /\ last.op = "done" /\ last.kind = "login" /\ last.status = "401"
    /\ AccessTokenOf(last.result.data) = Some("abc")
    /\ last.before.token = "abc"
    /\ token = "abc"
    /\ toast.tone = "error"

\* C2: when the login flow has completed, if POST /authenticate got an ok
\* response whose parsed body carries a non-empty access_token, the token
\* state (and its stored copy) is exactly that access_token and the toast
\* is success-toned with a message containing the returned username;
\* otherwise the token is what it was before the login.
C2_LoginStoresToken ==
    (last.op = "done" /\ last.kind = "login") =>
        IF /\ last.outcome = "http" /\ ResOk(last.status)
           /\ AccessTokenOf(last.result.data) # Undefined
           /\ AccessTokenOf(last.result.data)[1] # ""
        THEN /\ token = AccessTokenOf(last.result.data)[1]
             /\ localStorage["hub.token"] = Some(JSONStringify(Str(token)))
             /\ toast.tone = "success"
             /\ UsernameOf(last.result.data) # Undefined =>
                    Contains(toast.message, UsernameOf(last.result.data)[1])
        ELSE token = last.before.token

\* a guest's login answered 200 {access_token: "abc", username: "u"} has completed
C2_Witness ==
    /\ last.op = "done" /\ last.kind = "login" /\ last.status = "200"
    /\ last.before.token = ""
    /\ last.result.data = Reply(Some("abc"), Some("u"))
    /\ token = "abc"
    /\ toast = Toast("success", "Signed in as u")

\* C3: when the logout flow has completed the token is the empty string,
\* whether POST /logout got a 2xx, a non-2xx or threw; and the token is not
\* cleared before that request has been issued and has settled: while the
\* logout flow is suspended the token is still the one the flow found.
C3_LogoutClearsToken ==
    /\ (last.op = "done" /\ last.kind = "logout") =>
            /\ token = ""
            /\ localStorage["hub.token"] = Some(JSONStringify(Str("")))
            /\ last.request.path = "/logout" /\ last.request.method = "POST"
    /\ \A i \in 1..Len(flows) :
            flows[i].kind = "logout" =>
                /\ flows[i].req.path = "/logout"
                /\ flows[i].before.token # ""
                /\ token = flows[i].before.token

\* a logout whose fetch threw has completed
C3_Witness ==
    /\ last.op = "done" /\ last.kind = "logout" /\ last.outcome = "threw"
    /\ last.before.token = "abc"
    /\ token = ""

Blank(text) == Trim(text) = ""

\* C4: a custom call whose body text is non-blank and not valid JSON is
\* never dispatched; its handler sets the error toast and leaves the
\* loading flag, the response record and the token as they were, with no
\* fetch outstanding.
C4_InvalidBodyNotSent ==
    /\ (last.op = "dispatch" /\ last.kind = "custom") =>
            (Blank(last.found.customBody) \/ JSONParse(last.found.customBody) # Undefined)
    /\ (last.op = "rejected") =>
            /\ ~Blank(last.found.customBody)
            /\ JSONParse(last.found.customBody) = Undefined
            /\ toast = Toast("error", "Request body must be valid JSON")
            /\ isLoading = last.found.isLoading
            /\ response = last.found.response
            /\ token = last.before.token
            /\ flows = <<>>

\* the handler has rejected "{not json" while a response record was shown
C4_Witness ==
    /\ last.op = "rejected"
    /\ last.found.customBody = "{not json"
    /\ response.t = "object"
    /\ toast.tone = "error"

\* C5: a dispatch has set the loading flag when it suspends, and has reset
\* it when it returns, whether from a 2xx, from a non-2xx or from a throw;
\* and, every network call settling, a set loading flag is eventually reset.
C5_LoadingSafe ==
    /\ last.op = "dispatch" => isLoading
    /\ \A i \in 1..Len(flows) :
            /\ flows[i].pc \in {"fetch", "text"} => isLoading
            /\ flows[i].pc = "resume" => ~isLoading

C5_LoadingCleared == []C5_LoadingSafe /\ (isLoading ~> ~isLoading)

\* a dispatch whose fetch threw has returned, the loading flag reset
C5_Witness ==
    \E i \in 1..Len(flows) :
        flows[i].pc = "resume" /\ flows[i].outcome = "threw" /\ ~isLoading

\* C6: when the network call of a dispatch throws, the dispatch returns
\* normally with a not-ok result, the toast being error-toned with the
\* exception's message and the response record being the request's method
\* and path with status "error".
C6_ThrowCaught ==
    \A i \in 1..Len(flows) :
        (flows[i].pc = "resume" /\ flows[i].outcome = "threw") =>
            /\ ~flows[i].result.ok
            /\ toast = Toast("error", flows[i].message)
            /\ response.t = "object"
            /\ response.method = flows[i].req.method
            /\ response.path = flows[i].req.path
            /\ response.status = "error"

\* the login's fetch threw and handleLogin is about to resume
C6_Witness ==
    \E i \in 1..Len(flows) :
        /\ flows[i].kind = "login" /\ flows[i].pc = "resume"
        /\ flows[i].outcome = "threw"
        /\ toast = Toast("error", "Failed to fetch")
        /\ response.t = "object" /\ response.status = "error"

\* C10 as stated: a custom call with a blank body text is dispatched
\* without a body; one with a non-GET method and a non-blank valid JSON
\* text is dispatched with the JSON serialization of the parsed value as
\* its body; and no GET request carries a body.
C10_CustomBody ==
    /\ (last.op = "dispatch" /\ last.kind = "custom") =>
            /\ Blank(last.found.customBody) => last.request.body = Undefined
            /\ (/\ ~Blank(last.found.customBody)
                /\ JSONParse(last.found.customBody) # Undefined
                /\ last.request.method # "GET")
                    => last.request.body =
                         Some(JSONStringify(JSONParse(last.found.customBody)[1]))
    /\ (last.op = "dispatch" /\ last.request.method = "GET") =>
            last.request.body = Undefined

-----------------------------------------------------------------------------
(* The hooks under their client *)

\* the code a HookClient may have: its initial value and the dependency
\* lists of its memo and its effect, and whether its effect copies stored
DepShapes == {"missing", "empty", "list"}

ClientProps ==
    [initial : {Undefined, Some("a")}, memoDeps : DepShapes, effectDeps : DepShapes,
     syncs : BOOLEAN]

\* what "k" holds when the page loads: nothing, text that is not JSON, or
\* what an earlier session stored
ClientStorages ==
    {[k \in StorageKeys |-> IF k = "k" THEN raw ELSE Undefined] :
        raw \in {Undefined, Some("{oops"), Some(Quote("b"))}}

\* what the client's handlers pass to a setter
SetterArgs == {Lit(Some("a")), Lit(Some("b")), Lit(Undefined), Fn("swap")}

\* root.render(h(HookClient, props))
HooksInit ==
    \E props \in ClientProps, storage \in ClientStorages :
        Loaded(render(Fresh([type |-> "HookClient", props |-> props], storage)))

\* cleanupLog starts anew with each handler run.  The cleanup function the
\* effect slot holds is called number 0 from here on and keeps the calls
\* it has had, after the event of its return.
Renumbered(log, id) ==
    <<[ev |-> "return", id |-> 0]>> \o
    [i \in 1..Len(SelectSeq(log, LAMBDA e : e.ev = "cleanup" /\ e.id = id)) |->
        [ev |-> "cleanup", id |-> 0]]

HandlerStarts(machine) ==
    With(machine, LAMBDA m :
        [m EXCEPT !.cleanupLog = Renumbered(@, m.hooks[SyncSlot][1].cleanup[1].id),
                  !.hooks[SyncSlot][1].cleanup[1].id = 0])

\* a handler calls setStored / setMirror
SetStored ==
    \E v \in SetterArgs :
        /\ Commit(setState(HandlerStarts(Machine), StoredSlot, v))
        /\ last' = Event("setStored", "none")
        /\ UNCHANGED flows

SetMirror ==
    \E v \in SetterArgs :
        /\ Commit(setState(HandlerStarts(Machine), MirrorSlot, v))
        /\ last' = Event("setMirror", "none")
        /\ UNCHANGED flows

HooksNext == SetStored \/ SetMirror

HooksSpec == HooksInit /\ [][HooksNext]_vars

-----------------------------------------------------------------------------
(* Claims about the hooks *)

\* C7 as stated: once the render and the effect flush that follow a call of
\* the persistence hook's setter have finished, the storage entry under its
\* key is the JSON serialization of the value last set, and the key is
\* absent when the value last set is undefined.
C7_StorageFollowsSetter ==
    lastSet[StoredSlot].set =>
        IF lastSet[StoredSlot].v = Undefined
        THEN localStorage["k"] = Undefined
        ELSE localStorage["k"] = Some(JSONStringify(Str(lastSet[StoredSlot].v[1])))

\* C8 as stated: after any setter calls, each state hook returned in the
\* last render the value last set through its own setter (or made by its
\* updater), whatever was set in the other slot, and a slot no setter call
\* was made for holds its initial value.
C8_SlotsKeepLastSet ==
    /\ ~lastSet[MirrorSlot].set => hooks[MirrorSlot] = Some("x")
    /\ lastSet[StoredSlot].set =>
            (hooks[StoredSlot] = lastSet[StoredSlot].v /\ dom.stored = lastSet[StoredSlot].v)
    /\ lastSet[MirrorSlot].set =>
            (hooks[MirrorSlot] = lastSet[MirrorSlot].v /\ dom.mirror = lastSet[MirrorSlot].v)

\* the dependency list of a hook call is missing, is empty, or differs in
\* some position from the one the call was given in the render before (the
\* first render has none before it)
DepsDiffer(o) ==
    \/ o.first
    \/ o.deps = Undefined
    \/ Len(o.deps[1]) = 0
    \/ \E i \in 1..Len(o.deps[1]) : o.deps[1][i] # o.prior[1][i]

\* C9 as stated: in every render the memo hook calls its factory, and each
\* effect hook schedules its body, if and only if the dependency list is
\* missing, is empty, or differs in some position from the one of the
\* render before.
C9_FiresIffDepsDiffer ==
    \A idx \in {StoredEffectSlot, MemoSlot, SyncSlot} :
        obs[idx].seen => (obs[idx].fired <=> DepsDiffer(obs[idx]))

-----------------------------------------------------------------------------
(* Claims about the App over its whole run *)

\* C12: every request the rendered controls send carries an Authorization
\* header exactly when the token state is non-empty at the moment of its
\* dispatch, and the header is then "Bearer " followed by that token; this
\* holds of the request just dispatched and of every request in flight.
C12_BearerIffToken ==
    /\ last.op = "dispatch" =>
            /\ token = last.before.token
            /\ last.request.authorization =
                    IF token = "" THEN Undefined ELSE Some("Bearer " \o token)
    /\ \A i \in 1..Len(flows) :
            flows[i].req.authorization =
                IF flows[i].before.token = "" THEN Undefined
                ELSE Some("Bearer " \o flows[i].before.token)

\* a quick action is dispatched with the token a login of this session got,
\* the record of that login still being shown
C12_Witness ==
    /\ last.op = "dispatch" /\ last.kind = "quick"
    /\ last.request.authorization = Some("Bearer abc")
    /\ response.t = "object" /\ response.path = "/authenticate"
    /\ response.status = "200"

\* the network call of a flow is outstanding
InFlight(f) == f.pc \in {"fetch", "text"}

\* C13: requests being triggered only through controls that are enabled in
\* the tree last rendered, at most one request is in flight in any state,
\* and the loading flag is true (and every trigger control disabled) in
\* every state in which one is.
C13_OneInFlight ==
    /\ Cardinality({i \in 1..Len(flows) : InFlight(flows[i])}) <= 1
    /\ (\E i \in 1..Len(flows) : InFlight(flows[i])) =>
            /\ isLoading
            /\ dom.loginDisabled /\ dom.logoutDisabled
            /\ dom.quickDisabled /\ dom.customDisabled

\* a signed-in user's custom call awaits its response body, every trigger
\* control being disabled by the loading flag
C13_Witness ==
    /\ Len(flows) = 1 /\ flows[1].kind = "custom" /\ flows[1].pc = "text"
    /\ token = "abc" /\ isLoading
    /\ dom.logoutDisabled /\ dom.quickDisabled

\* C14 as stated: in every handler run, setter calls from inside an effect
\* body included, whenever the effect body starts and an earlier run of the
\* effect has returned a cleanup function, the cleanup of the most recent
\* such run has been called before; and no cleanup function is called more
\* than once.
C14_CleanupOnce ==
    /\ \A j \in 1..Len(cleanupLog) :
            (cleanupLog[j].ev = "start"
                /\ \E i \in 1..(j - 1) : cleanupLog[i].ev = "return") =>
                LET r == CHOOSE i \in 1..(j - 1) :
                            /\ cleanupLog[i].ev = "return"
                            /\ \A k \in (i + 1)..(j - 1) : cleanupLog[k].ev # "return"
                IN  \E i \in 1..(j - 1) :
                        cleanupLog[i] = [ev |-> "cleanup", id |-> cleanupLog[r].id]
    /\ \A i, j \in 1..Len(cleanupLog) :
            (i < j /\ cleanupLog[i].ev = "cleanup" /\ cleanupLog[j].ev = "cleanup") =>
                cleanupLog[i].id # cleanupLog[j].id

-----------------------------------------------------------------------------
(* buildUrl on its own *)

\* base URLs and paths with none, one and two slashes where the two meet
UrlBases == {"", "/", "x", "http://x", "http://x/", "http://x//", "http://x/api",
             "http://x/api/"}
UrlPaths == {"", "/", "y", "/y", "//y", "y/", "/y/z"}

\* the arguments of a call of buildUrl, nothing being rendered
UrlInit ==
    \E base \in UrlBases, path \in UrlPaths,
       m \in {Fresh([type |-> "none", props |-> [none |-> TRUE]],
                    [k \in StorageKeys |-> Undefined])} :
        /\ hooks = m.hooks
        /\ hookIndex = m.hookIndex
        /\ pendingEffects = m.pendingEffects
        /\ currentVNode = m.currentVNode
        /\ localStorage = m.localStorage
        /\ dom = m.dom
        /\ obs = m.obs
        /\ lastSet = m.lastSet
        /\ cleanupLog = m.cleanupLog
        /\ flows = <<>>
        /\ last = [op |-> "args", baseUrl |-> base, path |-> path, url |-> ""]

\* buildUrl(baseUrl, path) returns
CallBuildUrl ==
    /\ last.op = "args"
    /\ last' = [last EXCEPT !.op = "buildUrl", !.url = buildUrl(last.baseUrl, last.path)]
    /\ UNCHANGED <<hooks, hookIndex, pendingEffects, currentVNode, localStorage, dom,
                   flows, obs, lastSet, cleanupLog>>

UrlNext == CallBuildUrl

UrlSpec == UrlInit /\ [][UrlNext]_vars

RECURSIVE StripTrailingSlashes(_)
StripTrailingSlashes(s) ==
    IF EndsWith(s, "/") THEN StripTrailingSlashes(SubSeq(s, 1, Len(s) - 1)) ELSE s

RECURSIVE StripLeadingSlashes(_)
StripLeadingSlashes(s) ==
    IF StartsWith(s, "/") THEN StripLeadingSlashes(SubSeq(s, 2, Len(s))) ELSE s

\* C11 as stated: for every base URL and path, buildUrl gives the base and
\* the path joined by exactly one separator, whatever slashes the base ends
\* with and the path starts with; buildUrl("http://x/", "/y") and
\* buildUrl("http://x", "y") are both "http://x/y".
C11_ExactlyOneSeparator ==
    last.op = "buildUrl" =>
        /\ last.url = StripTrailingSlashes(last.baseUrl) \o "/" \o StripLeadingSlashes(last.path)
        /\ (last.baseUrl = "http://x/" /\ last.path = "/y") => last.url = "http://x/y"
        /\ (last.baseUrl = "http://x" /\ last.path = "y") => last.url = "http://x/y"

====
